---- MODULE Spec2Model ----
(***************************************************************************)
(* Gate operators of netket_fidelity/operator/singlequbit_gates.py:        *)
(* Rx, Ry, Hadamard and Hadamard_multi.                                    *)
(*                                                                         *)
(* Numbers.  Amplitudes are kept exact.  A real is (a + b*sqrt(2)) / 2^e,  *)
(* a record [a, b, e] in lowest terms; a complex is [re, im].  An angle is *)
(* an integer t standing for t*pi/2, so that cos(angle/2) and sin(angle/2) *)
(* are 0, +-1 or +-1/sqrt(2), all in the ring.  Floating point rounding is *)
(* not modelled.                                                           *)
(*                                                                         *)
(* Indices.  Qubit indices and the counter i of Hadamard_multi are 0-based *)
(* as in Python; a TLA+ sequence is 1-based, so sigma[idx] of the source   *)
(* reads sigma[idx + 1] here and conns[i] is element i + 1.                *)
(***************************************************************************)
EXTENDS Integers, Sequences, FiniteSets

VARIABLES gate, x, sections, out

vars == <<gate, x, sections, out>>

\* ------------------------------------------------------------- bounds
\* sites of a Hilbert space
MaxSize == 3
\* configurations in a batch
MaxBatch == 3
\* entries (configurations times sites) of an input array
MaxCells == 6
\* angles range over -MaxAngle..MaxAngle, in units of pi/2
MaxAngle == 2

\* ------------------------------------------------------------ numbers
RECURSIVE RNorm(_, _, _)
RNorm(a, b, e) ==
    IF e > 0 /\ a % 2 = 0 /\ b % 2 = 0
    THEN RNorm(a \div 2, b \div 2, e - 1)
    ELSE [a |-> a, b |-> b, e |-> e]

RZero == [a |-> 0, b |-> 0, e |-> 0]
ROne == [a |-> 1, b |-> 0, e |-> 0]
RInvSqrt2 == [a |-> 0, b |-> 1, e |-> 1]

RNeg(r) == [a |-> 0 - r.a, b |-> 0 - r.b, e |-> r.e]

RAdd(r, s) ==
    LET m == IF r.e > s.e THEN r.e ELSE s.e
    IN  RNorm(r.a * 2^(m - r.e) + s.a * 2^(m - s.e),
              r.b * 2^(m - r.e) + s.b * 2^(m - s.e), m)

RMul(r, s) ==
    RNorm(r.a * s.a + 2 * r.b * s.b, r.a * s.b + r.b * s.a, r.e + s.e)

RInt(n) == [a |-> n, b |-> 0, e |-> 0]

Cx(re, im) == [re |-> re, im |-> im]
CZero == Cx(RZero, RZero)
COne == Cx(ROne, RZero)
CReal(r) == Cx(r, RZero)
CAdd(c, d) == Cx(RAdd(c.re, d.re), RAdd(c.im, d.im))
CMul(c, d) ==
    Cx(RAdd(RMul(c.re, d.re), RNeg(RMul(c.im, d.im))),
       RAdd(RMul(c.re, d.im), RMul(c.im, d.re)))
CConj(c) == Cx(c.re, RNeg(c.im))

\* -1j
MinusJ == Cx(RZero, RNeg(ROne))
\* 1j
PlusJ == Cx(RZero, ROne)

\* jnp.cos(angle / 2), np.cos(self.angle / 2): angle = t * pi/2
cos_half(t) ==
    LET r == t % 8
    IN  CASE r = 0 -> ROne
          [] r \in {1, 7} -> RInvSqrt2
          [] r \in {2, 6} -> RZero
          [] r \in {3, 5} -> RNeg(RInvSqrt2)
          [] OTHER -> RNeg(ROne)

\* jnp.sin(angle / 2), np.sin(self.angle / 2)
sin_half(t) ==
    LET r == t % 8
    IN  CASE r \in {0, 4} -> RZero
          [] r \in {1, 3} -> RInvSqrt2
          [] r = 2 -> ROne
          [] r \in {5, 7} -> RNeg(RInvSqrt2)
          [] OTHER -> RNeg(ROne)

\* 1 / jnp.sqrt(2 ** k)
inv_sqrt_pow2(k) ==
    IF k % 2 = 0 THEN [a |-> 1, b |-> 0, e |-> k \div 2]
    ELSE [a |-> 0, b |-> 1, e |-> (k + 1) \div 2]

\* np.arange(start, stop, step) for step > 0
arange(start, stop, step) ==
    LET n == IF stop > start THEN (stop - start + step - 1) \div step ELSE 0
    IN  [i \in 1..n |-> start + (i - 1) * step]

\* ------------------------------------------------ Hilbert space, inputs
\* hi.local_states: the two local values, in the host's order
LocalStateChoices == {<<0, 1>>, <<1, -1>>}

Hilberts ==
    {[local_states |-> ls, size |-> n] : ls \in LocalStateChoices, n \in 1..MaxSize}

Angles == (0 - MaxAngle)..MaxAngle

\* basis configurations of a Hilbert space
Configs(hi) == [1..hi.size -> {hi.local_states[1], hi.local_states[2]}]

\* idx of Hadamard_multi: distinct positions, in any order
IdxLists(hi) ==
    UNION {{s \in [1..k -> 0..(hi.size - 1)] :
               \A p, q \in 1..k : p # q => s[p] # s[q]} : k \in 1..hi.size}

\* an array argument x: shape (L,) (one configuration) or (N, L); data holds
\* its rows in C order
Inputs(hi) ==
    {[shape |-> <<hi.size>>, data |-> <<c>>] : c \in Configs(hi)}
    \cup
    UNION {{[shape |-> <<n, hi.size>>, data |-> d] : d \in [1..n -> Configs(hi)]} :
              n \in {n \in 1..MaxBatch : n * hi.size <= MaxCells}}

\* x.shape[:-1]
BatchShape(a) == SubSeq(a.shape, 1, Len(a.shape) - 1)

\* number of elements of an array of the given shape
RECURSIVE Size(_)
Size(shape) == IF shape = <<>> THEN 1 ELSE Head(shape) * Size(Tail(shape))

\* x.reshape(-1, x.shape[-1]): the rows, in C order
reshape_rows(a) == a.data

\* ------------------------------------------------------------------ Rx
Rx(hi, idx, angle) ==
    [cls |-> "Rx", hilbert |-> hi, _local_states |-> hi.local_states,
     _idx |-> idx, _angle |-> angle]

Rx_H(self) == Rx(self.hilbert, self._idx, 0 - self._angle)

\* mutant: the angle left out of the comparison
Rx_eq_idx_only(self, o) ==
    IF o.cls = "Rx" THEN o._idx = self._idx ELSE FALSE

Rx_eq(self, o) ==
    IF o.cls = "Rx" THEN o._idx = self._idx /\ o._angle = self._angle
    ELSE FALSE

Rx_tree_flatten(self) ==
    [children |-> <<self._angle>>, aux_data |-> <<self.hilbert, self._idx>>]

Rx_tree_unflatten(aux_data, children) ==
    Rx(aux_data[1], aux_data[2], children[1])

Rx_max_conn_size(self) == 2

\* mutant: the flip without the test of the current state
get_conns_and_mels_Rx_stuck(sigma, idx, angle, local_states) ==
    LET state_1 == local_states[2]
    IN  [conns |-> <<sigma, [sigma EXCEPT ![idx + 1] = state_1]>>,
         mels |-> <<CReal(cos_half(angle)), CMul(MinusJ, CReal(sin_half(angle)))>>]

get_conns_and_mels_Rx(sigma, idx, angle, local_states) ==
    LET state_0 == local_states[1]
        state_1 == local_states[2]
        current_state == sigma[idx + 1]
        flipped_state == IF current_state = state_0 THEN state_1 ELSE state_0
    IN  [conns |-> <<sigma, [sigma EXCEPT ![idx + 1] = flipped_state]>>,
         mels |-> <<CReal(cos_half(angle)), CMul(MinusJ, CReal(sin_half(angle)))>>]

\* ------------------------------------------------------------------ Ry
Ry(hi, idx, angle) ==
    [cls |-> "Ry", hilbert |-> hi, _local_states |-> hi.local_states,
     _idx |-> idx, _angle |-> angle]

\* mutant: the angle negated and not doubled
Ry_H_negated(self) == Ry(self.hilbert, self._idx, 0 - self._angle)

Ry_H(self) == Ry(self.hilbert, self._idx, (0 - self._angle) * 2)

Ry_max_conn_size(self) == 2

Ry_eq(self, o) ==
    IF o.cls = "Ry" THEN o._idx = self._idx /\ o._angle = self._angle
    ELSE FALSE

Ry_tree_flatten(self) ==
    [children |-> <<self._angle>>, aux_data |-> <<self.hilbert, self._idx>>]

Ry_tree_unflatten(aux_data, children) ==
    Ry(aux_data[1], aux_data[2], children[1])

get_conns_and_mels_Ry(sigma, idx, angle, local_states) ==
    LET state_0 == local_states[1]
        state_1 == local_states[2]
        current_state == sigma[idx + 1]
        flipped_state == IF current_state = state_0 THEN state_1 ELSE state_0
        conns == <<sigma, [sigma EXCEPT ![idx + 1] = flipped_state]>>
        phase_factor == IF conns[1][idx + 1] = local_states[1] THEN 1 ELSE -1
    IN  [conns |-> conns,
         mels |-> <<CReal(cos_half(angle)),
                    CReal(RMul(RInt(phase_factor), sin_half(angle)))>>]

\* ------------------------------------------------------------ Hadamard
Hadamard(hi, idx) ==
    [cls |-> "Hadamard", hilbert |-> hi, _local_states |-> hi.local_states,
     _idx |-> idx]

Hadamard_H(self) == Hadamard(self.hilbert, self._idx)

Hadamard_eq(self, o) ==
    IF o.cls = "Hadamard" THEN o._idx = self._idx ELSE FALSE

Hadamard_tree_flatten(self) ==
    [children |-> <<>>, aux_data |-> <<self.hilbert, self._idx>>]

Hadamard_tree_unflatten(aux_data, children) ==
    Hadamard(aux_data[1], aux_data[2])

Hadamard_max_conn_size(self) == 2

\* mutant: the diagonal amplitude without its sign
get_conns_and_mels_Hadamard_unsigned(sigma, idx, local_states) ==
    LET state_0 == local_states[1]
        state_1 == local_states[2]
        flipped_state == IF sigma[idx + 1] = state_0 THEN state_1 ELSE state_0
    IN  [conns |-> <<sigma, [sigma EXCEPT ![idx + 1] = flipped_state]>>,
         mels |-> <<CReal(RInvSqrt2), CReal(RInvSqrt2)>>]

get_conns_and_mels_Hadamard(sigma, idx, local_states) ==
    LET state_0 == local_states[1]
        state_1 == local_states[2]
        current_state == sigma[idx + 1]
        flipped_state == IF current_state = state_0 THEN state_1 ELSE state_0
        conns == <<sigma, [sigma EXCEPT ![idx + 1] = flipped_state]>>
        state_value == conns[1][idx + 1]
        mels_value ==
            RMul(RInt(IF state_value = local_states[1] THEN 1 ELSE -1), RInvSqrt2)
    IN  [conns |-> conns, mels |-> <<CReal(mels_value), CReal(RInvSqrt2)>>]

\* ------------------------------------------------------ Hadamard_multi
Hadamard_multi(hi, idx) ==
    [cls |-> "Hadamard_multi", hilbert |-> hi, _local_states |-> hi.local_states,
     _idx |-> idx]

Hadamard_multi_H(self) == Hadamard_multi(self.hilbert, self._idx)

\* Python's == of two idx values: the idx of a Hadamard_multi is a list, that of
\* the other gates an int, and an int never equals a list
idx_is_list(g) == g.cls = "Hadamard_multi"
py_idx_eq(o, self) ==
    IF idx_is_list(o) = idx_is_list(self) THEN o._idx = self._idx ELSE FALSE

\* isinstance(o, Hadamard): the class tested is Hadamard, not Hadamard_multi
Hadamard_multi_eq(self, o) ==
    IF o.cls = "Hadamard" THEN py_idx_eq(o, self) ELSE FALSE

Hadamard_multi_tree_flatten(self) ==
    [children |-> <<>>, aux_data |-> <<self.hilbert, self._idx>>]

Hadamard_multi_tree_unflatten(aux_data, children) ==
    Hadamard_multi(aux_data[1], aux_data[2])

Hadamard_multi_max_conn_size(self) == 2^Len(self._idx)

\* mutant: bit j of i read from the most significant end
combination_msb_first(i, idx) ==
    {j \in 1..Len(idx) : (i \div 2^(Len(idx) - j)) % 2 = 1}

\* [idx[j] for j in range(len(idx)) if (i >> j) & 1], as the set of the
\* (1-based) places j + 1 of idx it selects
combination(i, idx) == {j \in 1..Len(idx) : (i \div 2^(j - 1)) % 2 = 1}

get_conns_and_mels_Hadamard_multiple(sigma, idx, local_states) ==
    LET state_0 == local_states[1]
        state_1 == local_states[2]
        num_combinations == 2^Len(idx)
        flipped_state(index) ==
            IF sigma[index + 1] = state_0 THEN state_1 ELSE state_0
        \* row i of conns after the inner loop: every index of the combination
        \* holds the flip of sigma's value there
        conn(i) ==
            [p \in 1..Len(sigma) |->
                IF \E j \in combination(i, idx) : idx[j] = p - 1
                THEN flipped_state(p - 1) ELSE sigma[p]]
        \* jnp.prod(jnp.where(conns[i, idx] == local_states[0], 1, -1))
        minus(i) ==
            Cardinality({j \in 1..Len(idx) : conn(i)[idx[j] + 1] # local_states[1]})
        mels_value(i) ==
            RMul(RInt(IF minus(i) % 2 = 0 THEN 1 ELSE -1),
                 inv_sqrt_pow2(Len(idx)))
    IN  [conns |-> [i \in 1..num_combinations |-> conn(i - 1)],
         mels |-> [i \in 1..num_combinations |-> CReal(mels_value(i - 1))]]

\* ------------------------------------------------- batched operations
RECURSIVE Concat(_)
\* reshape(-1, ...) of a stack of rows: the rows' elements one after another
Concat(rows) == IF rows = <<>> THEN <<>> ELSE Head(rows) \o Concat(Tail(rows))

\* the stacked outputs of a vmapped function over the rows xr, each result r[n]
\* a pair (conns, mels), reshaped to the batch shape of x:
\* xp.reshape(x.shape[:-1] + xp.shape[-2:]), mels.reshape(x.shape[:-1] + mels.shape[-1:])
stack_reshape(a, r) ==
    [xp |-> [shape |-> BatchShape(a) \o <<Len(r[1].conns), Len(r[1].conns[1])>>,
             data |-> [n \in 1..Len(r) |-> r[n].conns]],
     mels |-> [shape |-> BatchShape(a) \o <<Len(r[1].mels)>>,
               data |-> [n \in 1..Len(r) |-> r[n].mels]]]

\* mutant: every slice computed from the first row
Rx_get_conn_padded_first_row(self, a) ==
    LET xr == reshape_rows(a)
    IN  stack_reshape(a, [n \in 1..Len(xr) |->
            get_conns_and_mels_Rx(xr[1], self._idx, self._angle, self._local_states)])

Rx_get_conn_padded(self, a) ==
    LET xr == reshape_rows(a)
    IN  stack_reshape(a, [n \in 1..Len(xr) |->
            get_conns_and_mels_Rx(xr[n], self._idx, self._angle, self._local_states)])

Ry_get_conn_padded(self, a) ==
    LET xr == reshape_rows(a)
    IN  stack_reshape(a, [n \in 1..Len(xr) |->
            get_conns_and_mels_Ry(xr[n], self._idx, self._angle, self._local_states)])

Hadamard_get_conn_padded(self, a) ==
    LET xr == reshape_rows(a)
    IN  stack_reshape(a, [n \in 1..Len(xr) |->
            get_conns_and_mels_Hadamard(xr[n], self._idx, self._local_states)])

Hadamard_multi_get_conn_padded(self, a) ==
    LET xr == reshape_rows(a)
    IN  stack_reshape(a, [n \in 1..Len(xr) |->
            get_conns_and_mels_Hadamard_multiple(xr[n], self._idx, self._local_states)])

\* sections[:] = values on a numpy array: the values are written when there is
\* one per entry, one value is broadcast, anything else raises ValueError
slice_assign(target, values) ==
    IF Len(values) = Len(target) THEN [raised |-> FALSE, array |-> values]
    ELSE IF Len(values) = 1
         THEN [raised |-> FALSE, array |-> [n \in 1..Len(target) |-> values[1]]]
         ELSE [raised |-> TRUE, array |-> target]

\* the body of get_conn_flattened, the same text in the four classes.  traced:
\* the method is decorated with jax.jit and jit is enabled, so inside the body
\* sections is a tracer, which supports no item assignment: sections[:] = ...
\* raises TypeError.
flattened_body(padded, hilbert, secs, traced) ==
    LET w == slice_assign(secs, arange(2, Size(padded.mels.shape) + 2, 2))
    IN  IF traced
        THEN [raised |-> TRUE, error |-> "TypeError", sections |-> secs]
        ELSE IF w.raised
        THEN [raised |-> TRUE, error |-> "ValueError", sections |-> secs]
        ELSE [raised |-> FALSE, sections |-> w.array,
              xp |-> Concat(padded.xp.data), mels |-> Concat(padded.mels.data)]

\* jit: jax's jit is enabled (the default; jax.disable_jit() runs the Python body)
Rx_get_conn_flattened(self, a, secs, jit) ==
    flattened_body(Rx_get_conn_padded(self, a), self.hilbert, secs, FALSE)

Ry_get_conn_flattened(self, a, secs, jit) ==
    flattened_body(Ry_get_conn_padded(self, a), self.hilbert, secs, FALSE)

Hadamard_get_conn_flattened(self, a, secs, jit) ==
    flattened_body(Hadamard_get_conn_padded(self, a), self.hilbert, secs, jit)

Hadamard_multi_get_conn_flattened(self, a, secs, jit) ==
    flattened_body(Hadamard_multi_get_conn_padded(self, a), self.hilbert, secs, jit)

\* ------------------------------------------------------- dense operators
\* sigma with the value at idx replaced by the other local state
flip_site(hi, s, idx) ==
    [s EXCEPT ![idx + 1] =
        IF s[idx + 1] = hi.local_states[1] THEN hi.local_states[2]
        ELSE hi.local_states[1]]

\* spin.sigmax(hilbert, idx), spin.sigmay, spin.sigmaz of the host framework, as
\* matrices over the basis configurations; local_states[0] is the first basis
\* vector of the site
sigmax(hi, idx) ==
    [s \in Configs(hi), t \in Configs(hi) |->
        IF t = flip_site(hi, s, idx) THEN COne ELSE CZero]

sigmay(hi, idx) ==
    [s \in Configs(hi), t \in Configs(hi) |->
        IF t = flip_site(hi, s, idx)
        THEN (IF s[idx + 1] = hi.local_states[1] THEN MinusJ ELSE PlusJ)
        ELSE CZero]

sigmaz(hi, idx) ==
    [s \in Configs(hi), t \in Configs(hi) |->
        IF t = s
        THEN (IF s[idx + 1] = hi.local_states[1] THEN COne ELSE CReal(RNeg(ROne)))
        ELSE CZero]

\* operator arithmetic of the host framework: scalar + operator adds the scalar
\* times the identity
op_scale(c, m) == [p \in DOMAIN m |-> CMul(c, m[p])]
op_add(m, n) == [p \in DOMAIN m |-> CAdd(m[p], n[p])]
op_add_scalar(c, m) ==
    [p \in DOMAIN m |-> IF p[1] = p[2] THEN CAdd(c, m[p]) ELSE m[p]]

Rx_to_local_operator(self) ==
    LET ctheta == CReal(cos_half(self._angle))
        stheta == CReal(sin_half(self._angle))
    IN  op_add_scalar(ctheta,
            op_scale(CReal(RNeg(ROne)),
                op_scale(CMul(PlusJ, stheta), sigmax(self.hilbert, self._idx))))

Ry_to_local_operator(self) ==
    LET ctheta == CReal(cos_half(self._angle))
        stheta == CReal(sin_half(self._angle))
    IN  op_add_scalar(ctheta,
            op_scale(CMul(PlusJ, stheta), sigmay(self.hilbert, self._idx)))

Hadamard_to_local_operator(self) ==
    op_scale(CReal(RInvSqrt2),
        op_add(sigmaz(self.hilbert, self._idx), sigmax(self.hilbert, self._idx)))

\* the body is pass: the call returns None
Hadamard_multi_to_local_operator(self) == [cls |-> "NoneType"]

\* ------------------------------------------------------ method dispatch
H(g) ==
    CASE g.cls = "Rx" -> Rx_H(g)
      [] g.cls = "Ry" -> Ry_H(g)
      [] g.cls = "Hadamard" -> Hadamard_H(g)
      [] g.cls = "Hadamard_multi" -> Hadamard_multi_H(g)

\* g == o: g's __eq__ decides (it never returns NotImplemented)
eq(g, o) ==
    CASE g.cls = "Rx" -> Rx_eq(g, o)
      [] g.cls = "Ry" -> Ry_eq(g, o)
      [] g.cls = "Hadamard" -> Hadamard_eq(g, o)
      [] g.cls = "Hadamard_multi" -> Hadamard_multi_eq(g, o)

tree_flatten(g) ==
    CASE g.cls = "Rx" -> Rx_tree_flatten(g)
      [] g.cls = "Ry" -> Ry_tree_flatten(g)
      [] g.cls = "Hadamard" -> Hadamard_tree_flatten(g)
      [] g.cls = "Hadamard_multi" -> Hadamard_multi_tree_flatten(g)

tree_unflatten(cls, aux_data, children) ==
    CASE cls = "Rx" -> Rx_tree_unflatten(aux_data, children)
      [] cls = "Ry" -> Ry_tree_unflatten(aux_data, children)
      [] cls = "Hadamard" -> Hadamard_tree_unflatten(aux_data, children)
      [] cls = "Hadamard_multi" -> Hadamard_multi_tree_unflatten(aux_data, children)

max_conn_size(g) ==
    CASE g.cls = "Rx" -> Rx_max_conn_size(g)
      [] g.cls = "Ry" -> Ry_max_conn_size(g)
      [] g.cls = "Hadamard" -> Hadamard_max_conn_size(g)
      [] g.cls = "Hadamard_multi" -> Hadamard_multi_max_conn_size(g)

get_conn_padded(g, a) ==
    CASE g.cls = "Rx" -> Rx_get_conn_padded(g, a)
      [] g.cls = "Ry" -> Ry_get_conn_padded(g, a)
      [] g.cls = "Hadamard" -> Hadamard_get_conn_padded(g, a)
      [] g.cls = "Hadamard_multi" -> Hadamard_multi_get_conn_padded(g, a)

get_conn_flattened(g, a, secs, jit) ==
    CASE g.cls = "Rx" -> Rx_get_conn_flattened(g, a, secs, jit)
      [] g.cls = "Ry" -> Ry_get_conn_flattened(g, a, secs, jit)
      [] g.cls = "Hadamard" -> Hadamard_get_conn_flattened(g, a, secs, jit)
      [] g.cls = "Hadamard_multi" -> Hadamard_multi_get_conn_flattened(g, a, secs, jit)

to_local_operator(g) ==
    CASE g.cls = "Rx" -> Rx_to_local_operator(g)
      [] g.cls = "Ry" -> Ry_to_local_operator(g)
      [] g.cls = "Hadamard" -> Hadamard_to_local_operator(g)
      [] g.cls = "Hadamard_multi" -> Hadamard_multi_to_local_operator(g)

\* ------------------------------------------------------- the state machine
\* every gate that can be constructed over a Hilbert space
GatesOn(hi) ==
    {Rx(hi, i, t) : i \in 0..(hi.size - 1), t \in Angles}
    \cup {Ry(hi, i, t) : i \in 0..(hi.size - 1), t \in Angles}
    \cup {Hadamard(hi, i) : i \in 0..(hi.size - 1)}
    \cup {Hadamard_multi(hi, l) : l \in IdxLists(hi)}

Gates == UNION {GatesOn(hi) : hi \in Hilberts}

\* values of other types a gate may be compared with
Foreign == {[cls |-> "NoneType"], [cls |-> "int", value |-> 0]}

NoInput == [shape |-> <<0>>, data |-> <<>>]
Idle == [op |-> "none"]

\* gate: the gate constructed; x, sections: the arguments of the call in
\* progress; out: the call and what it returned
Init ==
    /\ gate \in Gates
    /\ x = NoInput
    /\ sections = <<>>
    /\ out = Idle

CallGetConnPadded ==
    /\ out = Idle
    /\ \E a \in Inputs(gate.hilbert) :
        /\ x' = a
        /\ out' = [op |-> "get_conn_padded", value |-> get_conn_padded(gate, a)]
    /\ UNCHANGED <<gate, sections>>

\* the caller passes a sections array with one entry per input configuration;
\* jax's jit is enabled or disabled in the process
CallGetConnFlattened ==
    /\ out = Idle
    /\ \E a \in Inputs(gate.hilbert), jit \in BOOLEAN :
        LET secs == [n \in 1..Size(BatchShape(a)) |-> 0]
            r == get_conn_flattened(gate, a, secs, jit)
        IN  /\ x' = a
            /\ sections' = r.sections
            /\ out' = [op |-> "get_conn_flattened", value |-> r]
    /\ UNCHANGED gate

CallH ==
    /\ out = Idle
    /\ out' = [op |-> "H", value |-> H(gate)]
    /\ UNCHANGED <<gate, x, sections>>

\* the value compared with: a gate over a Hilbert space of the same size (the
\* same one or one with other local states), or a value of another type
CallEq ==
    /\ out = Idle
    /\ \E o \in {g \in Gates : g.hilbert.size = gate.hilbert.size} \cup Foreign :
        out' = [op |-> "eq", o |-> o, value |-> eq(gate, o)]
    /\ UNCHANGED <<gate, x, sections>>

\* cls.tree_unflatten(aux_data, children) of what tree_flatten returned
CallTreeRoundTrip ==
    /\ out = Idle
    /\ LET flat == tree_flatten(gate)
           g2 == tree_unflatten(gate.cls, flat.aux_data, flat.children)
       IN  out' = [op |-> "tree", flat |-> flat, value |-> g2,
                   equal |-> eq(g2, gate)]
    /\ UNCHANGED <<gate, x, sections>>

CallToLocalOperator ==
    /\ out = Idle
    /\ out' = [op |-> "to_local_operator", value |-> to_local_operator(gate)]
    /\ UNCHANGED <<gate, x, sections>>

\* the caller drops the result
Return ==
    /\ out # Idle
    /\ out' = Idle
    /\ x' = NoInput
    /\ sections' = <<>>
    /\ UNCHANGED gate

Next ==
    \/ CallGetConnPadded
    \/ CallGetConnFlattened
    \/ CallH
    \/ CallEq
    \/ CallTreeRoundTrip
    \/ CallToLocalOperator
    \/ Return

Spec == Init /\ [][Next]_vars

\* ------------------------------------------------ what the claims speak of
\* the other local state
OtherState(hi, v) ==
    IF v = hi.local_states[1] THEN hi.local_states[2] ELSE hi.local_states[1]

\* the positions (0-based) where configuration c differs from sigma
FlipSet(sigma, c) == {p \in 0..(Len(sigma) - 1) : c[p + 1] # sigma[p + 1]}

\* bit j of i
Bit(i, j) == (i \div 2^j) % 2 = 1

\* connect(sigma): the operation on one configuration
Connect(g, sigma) ==
    LET r == get_conn_padded(g, [shape |-> <<Len(sigma)>>, data |-> <<sigma>>])
    IN  [conns |-> r.xp.data[1], mels |-> r.mels.data[1]]

RECURSIVE AmpFrom(_, _, _)
\* the sum of the amplitudes of the connections of c that equal t, from place i on
AmpFrom(c, t, i) ==
    IF i > Len(c.conns) THEN CZero
    ELSE CAdd(IF c.conns[i] = t THEN c.mels[i] ELSE CZero, AmpFrom(c, t, i + 1))

\* the amplitude the gate's connect assigns from s to t (0 when absent)
ConnAmp(g, s, t) == AmpFrom(Connect(g, s), t, 1)

\* the matrix defined by the connect amplitudes
ConnMatrix(g) ==
    [s \in Configs(g.hilbert), t \in Configs(g.hilbert) |-> ConnAmp(g, s, t)]

RECURSIVE SumOver(_, _, _, _)
\* sum over t in T of A[s, t] * B[t, u]
SumOver(A, B, p, T) ==
    IF T = {} THEN CZero
    ELSE LET t == CHOOSE v \in T : TRUE
         IN  CAdd(CMul(A[p[1], t], B[t, p[2]]), SumOver(A, B, p, T \ {t}))

\* the product of two operators over the configurations of hi
Compose(hi, A, B) ==
    [s \in Configs(hi), u \in Configs(hi) |-> SumOver(A, B, <<s, u>>, Configs(hi))]

IdentityOp(hi) ==
    [s \in Configs(hi), t \in Configs(hi) |-> IF s = t THEN COne ELSE CZero]

\* ------------------------------------------------------------------ C1
\* C1: for Rx, Ry and Hadamard, connect of every configuration sigma returns
\* exactly 2 = max_conn_size configurations: the first is sigma, the second is
\* sigma with the other local state at idx and sigma's values elsewhere.
C1_TwoConnections ==
    (out.op = "get_conn_padded" /\ gate.cls \in {"Rx", "Ry", "Hadamard"}) =>
        \A n \in 1..Len(x.data) :
            LET sigma == x.data[n]
                conns == out.value.xp.data[n]
            IN  /\ Len(conns) = 2
                /\ max_conn_size(gate) = 2
                /\ conns[1] = sigma
                /\ Len(conns[2]) = Len(sigma)
                /\ \A p \in 1..Len(sigma) :
                    conns[2][p] = IF p = gate._idx + 1
                                  THEN OtherState(gate.hilbert, sigma[p])
                                  ELSE sigma[p]

\* a batch holding both local states at idx, on two sites, through Ry
C1_Witness ==
    /\ out.op = "get_conn_padded"
    /\ gate.cls = "Ry"
    /\ gate.hilbert.size = 2
    /\ Len(x.data) = 2
    /\ x.data[1][gate._idx + 1] = gate.hilbert.local_states[1]
    /\ x.data[2][gate._idx + 1] = gate.hilbert.local_states[2]
    /\ out.value.xp.data[2][2] # x.data[2]

\* ------------------------------------------------------------------ C2
\* C2: Hadamard-multi on k distinct targets returns exactly 2^k = max_conn_size
\* configurations; conns[i] holds the other local state exactly at the positions
\* idx[j] whose bit j of i is set and sigma's values elsewhere; on two targets
\* the flip-sets in order are {}, {idx[0]}, {idx[1]}, {idx[0], idx[1]}.
C2_SubsetEnumeration ==
    (out.op = "get_conn_padded" /\ gate.cls = "Hadamard_multi") =>
        \A n \in 1..Len(x.data) :
            LET sigma == x.data[n]
                conns == out.value.xp.data[n]
                idx == gate._idx
                k == Len(idx)
            IN  /\ Len(conns) = 2^k
                /\ max_conn_size(gate) = 2^k
                /\ \A i \in 0..(2^k - 1) :
                    /\ Len(conns[i + 1]) = Len(sigma)
                    /\ FlipSet(sigma, conns[i + 1]) =
                         {idx[j + 1] : j \in {j \in 0..(k - 1) : Bit(i, j)}}
                    /\ \A p \in FlipSet(sigma, conns[i + 1]) :
                         conns[i + 1][p + 1] = OtherState(gate.hilbert, sigma[p + 1])
                /\ k = 2 =>
                    /\ FlipSet(sigma, conns[1]) = {}
                    /\ FlipSet(sigma, conns[2]) = {idx[1]}
                    /\ FlipSet(sigma, conns[3]) = {idx[2]}
                    /\ FlipSet(sigma, conns[4]) = {idx[1], idx[2]}

\* two targets given out of order, on a batch of two
C2_Witness ==
    /\ out.op = "get_conn_padded"
    /\ gate.cls = "Hadamard_multi"
    /\ gate._idx = <<1, 0>>
    /\ Len(x.data) = 2
    /\ Len(out.value.xp.data[2]) = 4
    /\ FlipSet(x.data[2], out.value.xp.data[2][2]) = {1}

\* ------------------------------------------------------------------ C3
\* C3: Hadamard-multi on the single target q returns the same configurations
\* and the same amplitudes, place by place, as Hadamard on q, whose amplitudes
\* are +1/sqrt(2) (sigma[q] is state_0) or -1/sqrt(2) first and +1/sqrt(2) second.
C3_MultiGeneralizesSingle ==
    (out.op = "get_conn_padded" /\ gate.cls = "Hadamard_multi" /\ Len(gate._idx) = 1) =>
        \A n \in 1..Len(x.data) :
            LET sigma == x.data[n]
                q == gate._idx[1]
                single == Connect(Hadamard(gate.hilbert, q), sigma)
            IN  /\ out.value.xp.data[n] = single.conns
                /\ out.value.mels.data[n] = single.mels
                /\ single.mels[1] =
                     CReal(IF sigma[q + 1] = gate.hilbert.local_states[1]
                           THEN RInvSqrt2 ELSE RNeg(RInvSqrt2))
                /\ single.mels[2] = CReal(RInvSqrt2)

\* ------------------------------------------------------------------ C4
\* C4: get_conn_flattened of every gate writes into sections, one entry per
\* input, the end offset (n + 1) * max_conn_size of input n's connections, and
\* returns the padded configurations and amplitudes concatenated in batch order.
C4_SectionsCumulative ==
    out.op = "get_conn_flattened" =>
        LET padded == get_conn_padded(gate, x)
            N == Len(x.data)
        IN  /\ ~out.value.raised
            /\ Len(sections) = N
            /\ \A n \in 1..N : sections[n] = n * max_conn_size(gate)
            /\ out.value.xp = Concat(padded.xp.data)
            /\ out.value.mels = Concat(padded.mels.data)

\* ------------------------------------------------------------------ C5
\* C5: the gate G.H returns is the conjugate transpose of G: the amplitude G.H
\* assigns from s to t is the complex conjugate of the amplitude G assigns from
\* t to s, for all configurations s and t.
C5_AdjointIsConjugateTranspose ==
    out.op = "H" =>
        \A s, t \in Configs(gate.hilbert) :
            ConnAmp(out.value, s, t) = CConj(ConnAmp(gate, t, s))

\* ------------------------------------------------------------------ C6
\* C6: get_conn_padded of a batch returns configurations of shape
\* (N, max_conn_size, L) and amplitudes of shape (N, max_conn_size); slice n is
\* connect of batch[n] alone, and replacing batch[m], m # n, leaves slice n as
\* it is.
C6_BatchedContract ==
    out.op = "get_conn_padded" =>
        LET N == Len(x.data)
            L == gate.hilbert.size
            c == max_conn_size(gate)
            xp == out.value.xp
            mels == out.value.mels
        IN  /\ xp.shape = BatchShape(x) \o <<c, L>>
            /\ mels.shape = BatchShape(x) \o <<c>>
            /\ Len(xp.data) = N /\ Len(mels.data) = N
            /\ \A n \in 1..N :
                /\ Len(xp.data[n]) = c /\ Len(mels.data[n]) = c
                /\ \A i \in 1..c : Len(xp.data[n][i]) = L
                /\ xp.data[n] = Connect(gate, x.data[n]).conns
                /\ mels.data[n] = Connect(gate, x.data[n]).mels
            /\ \A m \in 1..N : \A v \in Configs(gate.hilbert) :
                LET alt == get_conn_padded(gate, [x EXCEPT !.data[m] = v])
                IN  \A n \in (1..N) \ {m} :
                        /\ alt.xp.data[n] = xp.data[n]
                        /\ alt.mels.data[n] = mels.data[n]

\* a batch of two different configurations whose slices differ
C6_Witness ==
    /\ out.op = "get_conn_padded"
    /\ x.shape = <<2, 2>>
    /\ x.data[1] # x.data[2]
    /\ out.value.xp.shape = <<2, 2, 2>>
    /\ out.value.xp.data[1] # out.value.xp.data[2]
    /\ out.value.mels.data[1] # out.value.mels.data[2]

\* ------------------------------------------------------------------ C7
\* C7: an Rx equals another Rx exactly when index and angle are the same; it
\* never equals an Ry (the same index and angle included) nor a value of a
\* foreign type, for which the comparison answers false.
C7_RxEquality ==
    (out.op = "eq" /\ gate.cls = "Rx") =>
        /\ out.value \in BOOLEAN
        /\ out.o.cls = "Rx" =>
             (out.value <=> (out.o._idx = gate._idx /\ out.o._angle = gate._angle))
        /\ out.o.cls # "Rx" => out.value = FALSE

\* an Rx compared with the Ry of the same Hilbert space, index and angle
C7_Witness ==
    /\ out.op = "eq"
    /\ gate.cls = "Rx"
    /\ out.o = Ry(gate.hilbert, gate._idx, gate._angle)
    /\ out.value = FALSE

\* ------------------------------------------------------------------ C8
\* C8: Ry(idx, theta).H is an Ry on the same Hilbert space and index with angle
\* -2 * theta: it equals Ry(idx, -2 * theta), and equals Ry(idx, -theta) only
\* when theta = 0.
C8_RyAdjointDoubles ==
    (out.op = "H" /\ gate.cls = "Ry") =>
        /\ out.value.cls = "Ry"
        /\ out.value.hilbert = gate.hilbert
        /\ out.value._idx = gate._idx
        /\ out.value._angle = (0 - 2) * gate._angle
        /\ eq(out.value, Ry(gate.hilbert, gate._idx, (0 - 2) * gate._angle))
        /\ eq(out.value, Ry(gate.hilbert, gate._idx, 0 - gate._angle))
             <=> gate._angle = 0

\* the adjoint of an Ry of angle pi/2: an Ry of angle -pi
C8_Witness ==
    /\ out.op = "H"
    /\ gate.cls = "Ry"
    /\ gate._angle = 1
    /\ out.value._angle = -2

\* ------------------------------------------------------------------ C9
\* C9: the Hadamard gate composed with itself is the identity, both as the
\* operator (sigma_z[idx] + sigma_x[idx]) / sqrt(2) and as the matrix of its
\* connect amplitudes: amplitude 1 from every sigma to itself, 0 to the others.
C9_HadamardInvolution ==
    (out.op = "to_local_operator" /\ gate.cls = "Hadamard") =>
        /\ Compose(gate.hilbert, out.value, out.value) = IdentityOp(gate.hilbert)
        /\ Compose(gate.hilbert, ConnMatrix(gate), ConnMatrix(gate))
             = IdentityOp(gate.hilbert)

\* the dense operator of a Hadamard on the second of two sites
C9_Witness ==
    /\ out.op = "to_local_operator"
    /\ gate.cls = "Hadamard"
    /\ gate.hilbert.size = 2
    /\ gate._idx = 1
    /\ out.value # IdentityOp(gate.hilbert)

\* ----------------------------------------------------------------- C10
\* C10: for every gate g, tree_unflatten of what g.tree_flatten() returns is a
\* gate of the same variant that compares equal to g; every gate equals a gate
\* built from the same Hilbert space, indices and angle.
C10_RoundTripEqual ==
    out.op = "tree" =>
        /\ out.value.cls = gate.cls
        /\ out.equal = TRUE
        /\ eq(gate, out.value)

====
